---- MODULE Spec2Model ----
(***************************************************************************)
(* Product Order System (src/Product_order_list.py): the catalog loader    *)
(* and its memo, the session cart, the totals calculator, the order ledger *)
(* (orders.xlsx, rewritten whole on every save) and the category / weight  *)
(* derivation.                                                             *)
(*                                                                         *)
(* Text is a sequence of atoms (words and separators): "Bread_Product_1"   *)
(* is <<"Bread", "_", "Product", "_", "1">>.  No atom of the alphabet is a  *)
(* prefix of another and "_" and " " occur only as atoms of their own, so   *)
(* substring, split and equality on atom sequences agree with Python's on   *)
(* the characters.                                                         *)
(* Money is an integer; discount arithmetic is exact rational arithmetic   *)
(* on <<numerator, denominator>> pairs (IEEE rounding is not modelled).    *)
(***************************************************************************)
EXTENDS Integers, Sequences, FiniteSets, TLC

VARIABLES
    productFile,  \* product_template.xlsx: [exists, rows]
    cache,        \* st.cache_data memo of load_products(): [loaded, df]
    cart,         \* st.session_state.cart of each session
    discount,     \* the "Discount %" widget of each session
    ledger,       \* orders.xlsx: [exists, rows]
    torn,         \* orders.xlsx was opened for writing and the write failed:
                  \* what is left of it is no workbook
    fpdf,         \* FPDF_AVAILABLE
    saves,        \* history: what each save_order call returned, in order of
                  \* the writes, and how many writes preceded its read
    pc,           \* where each session's script run stands
    local,        \* save_order's locals of a run between its read and write
    code,         \* a "Product List" cell handed to the category functions
    derived       \* what the category functions returned for it

vars == <<productFile, cache, cart, discount, ledger, torn, fpdf, saves, pc,
          local, code, derived>>

Sessions == {1, 2}

---------------------------------------------------------------------------
(* Bounds                                                                  *)

MaxLines == 3       \* lines in the carts and rows in the ledger, together
MaxCatalog == 3     \* rows the catalog file holds
MaxCodeLen == 4     \* atoms of a product code handed to the category functions

---------------------------------------------------------------------------
(* Text helpers                                                            *)

US == "_"
SP == " "

\* Python's `pat in s`
Contains(s, pat) ==
    \E i \in 0..(Len(s) - Len(pat)) : SubSeq(s, i + 1, i + Len(pat)) = pat

\* Python's s.split(sep): the pieces between separators, empty pieces kept
RECURSIVE SplitOn(_, _)
SplitOn(s, sep) ==
    IF \A i \in 1..Len(s) : s[i] # sep
    THEN <<s>>
    ELSE LET k == CHOOSE i \in 1..Len(s) :
                      s[i] = sep /\ \A j \in 1..(i - 1) : s[j] # sep
         IN  <<SubSeq(s, 1, k - 1)>> \o SplitOn(SubSeq(s, k + 1, Len(s)), sep)

\* Python's s.split(): the pieces between runs of whitespace, empty pieces dropped
SplitWS(s) == SelectSeq(SplitOn(s, SP), LAMBDA t : t # <<>>)

\* Python's tok.lower().startswith("product")
LowerStartsWithProduct(tok) ==
    tok # <<>> /\ tok[1] \in {"Product", "product"}

BreadProduct == <<"Bread", US, "Product">>
PackingProduct == <<"Packing", US, "Product">>
General == <<"General">>

---------------------------------------------------------------------------
(* Category and weight derivation                                          *)

extract_category_from_productlist(s) ==
    LET hits == SelectSeq(SplitWS(s), LAMBDA t : Contains(t, <<"Product">>))
        toks == SplitOn(s, US)
    IN  IF hits # <<>>
        THEN IF Contains(hits[1], <<US>>)
             THEN SplitOn(hits[1], US)[1] \o <<US, "Product">>
             ELSE hits[1]
        ELSE IF Contains(s, <<US>>)
             THEN IF Len(toks) >= 2 /\ LowerStartsWithProduct(toks[2])
                  THEN toks[1] \o <<US, "Product">>
                  ELSE toks[1]
             ELSE General

weight_applicable_for_row(s) ==
    IF Contains(s, BreadProduct) \/ Contains(s, PackingProduct)
    THEN FALSE
    ELSE IF extract_category_from_productlist(s) = BreadProduct
            \/ extract_category_from_productlist(s) = PackingProduct
         THEN FALSE
         ELSE TRUE

\* load_products' inner extract_category
extract_category(s) ==
    IF Contains(s, BreadProduct) THEN BreadProduct
    ELSE IF Contains(s, PackingProduct) THEN PackingProduct
    ELSE IF Contains(s, <<US>>) THEN SplitOn(s, US)[1]
    ELSE General

---------------------------------------------------------------------------
(* Cells                                                                   *)

NaN == <<"<NaN>">>          \* pandas' missing value
Blank == <<>>               \* the empty string

\* An OrderID cell: text (the hex digits as written) or a number (its decimal
\* digits, no leading zero).  A cart line's OrderID is None.
StrCell(digits) == [t |-> "str", d |-> digits]
NumCell(digits) == [t |-> "num", d |-> digits]
NoneCell == [t |-> "none", d |-> <<>>]

\* A Price cell of the catalog file: a number, text that is no number, or blank
PriceNum(v) == [t |-> "num", v |-> v]
PriceText == [t |-> "text", v |-> 0]
PriceBlank == [t |-> "blank", v |-> 0]

\* Exact rationals <<n, d>>, d > 0
RMul(a, b) == <<a[1] * b[1], a[2] * b[2]>>
RDiv(a, b) == IF b[1] > 0 THEN <<a[1] * b[2], a[2] * b[1]>>
                          ELSE <<-(a[1] * b[2]), -(a[2] * b[1])>>
RSub(a, b) == <<a[1] * b[2] - b[1] * a[2], a[2] * b[2]>>
REq(a, b) == a[1] * b[2] = b[1] * a[2]
RInt(n) == <<n, 1>>

---------------------------------------------------------------------------
(* Catalog loader                                                          *)

\* The example catalog load_products writes when product_template.xlsx is missing
DemoRows ==
    << [ProductList |-> <<"Milk", US, "Product", US, "1", US, "Cheese", SP, "Mozorella">>,
        Product |-> <<"Cheese", SP, "Mozorella">>,
        Supplier |-> <<"Blink", SP, "IT">>, Price |-> PriceNum(535)],
       [ProductList |-> <<"Milk", US, "Product", US, "2", US, "Butter">>,
        Product |-> <<"Butter">>,
        Supplier |-> <<"Blink", SP, "IT">>, Price |-> PriceNum(290)],
       [ProductList |-> <<"Bread", US, "Product", US, "1", US, "Pizza", SP, "Base", SP, "10", SP, "inch">>,
        Product |-> <<"Pizza", SP, "Base", SP, "10", SP, "inch">>,
        Supplier |-> <<"Baker's", SP, "Hub">>, Price |-> PriceNum(120)],
       [ProductList |-> <<"Sauces", US, "Product", US, "6", US, "Tomato", SP, "ketchup">>,
        Product |-> <<"Tomato", SP, "ketchup">>,
        Supplier |-> <<"Sauce", SP, "Co.">>, Price |-> PriceNum(60)],
       [ProductList |-> <<"Packing", US, "Product", US, "1", US, "Box", SP, "Small">>,
        Product |-> <<"Box", SP, "Small">>,
        Supplier |-> <<"PackCo">>, Price |-> PriceNum(15)] >>

\* pd.read_excel on a text cell: an empty cell reads as NaN
ReadText(c) == IF c = Blank THEN NaN ELSE c

\* pd.to_numeric(errors="coerce").fillna(0.0) on a Price cell
CoercePrice(c) == IF c.t = "num" THEN c.v ELSE 0

\* One row of the loaded catalog
LoadRow(r) ==
    [ProductList |-> r.ProductList,
     Product |-> ReadText(r.Product),
     Supplier |-> ReadText(r.Supplier),
     Price |-> CoercePrice(r.Price),
     Category |-> extract_category(r.ProductList)]

\* The body of load_products, run on a cache miss
LoadFromFile(file) ==
    LET f == IF file.exists THEN file ELSE [exists |-> TRUE, rows |-> DemoRows]
    IN  [df |-> [i \in 1..Len(f.rows) |-> LoadRow(f.rows[i])], file |-> f]

\* A load_products that reads the file on every call
load_products_uncached(cacheV, file) ==
    LET l == LoadFromFile(file)
    IN  [df |-> l.df, cache |-> [loaded |-> TRUE, df |-> l.df], file |-> l.file]

\* @st.cache_data load_products(): the memo answers once it is filled
load_products(cacheV, file) ==
    IF cacheV.loaded
    THEN [df |-> cacheV.df, cache |-> cacheV, file |-> file]
    ELSE LET l == LoadFromFile(file)
         IN  [df |-> l.df, cache |-> [loaded |-> TRUE, df |-> l.df], file |-> l.file]

NoCache == [loaded |-> FALSE, df |-> <<>>]

---------------------------------------------------------------------------
(* Cart and totals                                                         *)

add_to_cart(cartV, product, supplier, price, qty, weight_str) ==
    Append(cartV, [OrderID |-> NoneCell,
                   Product |-> product,
                   Supplier |-> supplier,
                   Price |-> price,
                   Qty |-> qty,
                   Weight |-> weight_str,
                   LineTotal |-> price * qty])

clear_cart == <<>>

RECURSIVE SumLineTotal(_)
SumLineTotal(cartV) ==
    IF cartV = <<>> THEN 0
    ELSE SumLineTotal(SubSeq(cartV, 1, Len(cartV) - 1)) + cartV[Len(cartV)].LineTotal

\* Totals with the rate taken by floor division (discount_pct // 100)
compute_cart_totals_floor(cartV, discount_pct) ==
    LET subtotal == SumLineTotal(cartV)
        rate == RInt((discount_pct[1] \div discount_pct[2]) \div 100)
        discount_val == RMul(RInt(subtotal), rate)
    IN  [subtotal |-> subtotal, discount_val |-> discount_val,
         total |-> RSub(RInt(subtotal), discount_val)]

compute_cart_totals(cartV, discount_pct) ==
    LET subtotal == IF cartV # <<>> THEN SumLineTotal(cartV) ELSE 0
        discount_val == RMul(RInt(subtotal), RDiv(discount_pct, RInt(100)))
        total == RSub(RInt(subtotal), discount_val)
    IN  [subtotal |-> subtotal, discount_val |-> discount_val, total |-> total]

\* The weight label of the Order page: w2 is the numeric input in halves
WeightDisplay(w2, unit) ==
    IF unit = "g"
    THEN <<ToString(w2 \div 2), "g">>
    ELSE IF w2 % 2 = 0
         THEN <<ToString(w2 \div 2), unit>>
         ELSE <<ToString(w2 \div 2) \o ".5", unit>>

---------------------------------------------------------------------------
(* Order ledger                                                            *)

\* Whether pd.read_excel's type inference takes an OrderID cell for a number:
\* a number already, or text of decimal digits only
IsNumeric(c) == c.t = "num" \/ (c.t = "str" /\ \A i \in 1..Len(c.d) : c.d[i] < 10)

RECURSIVE StripZeros(_)
StripZeros(d) ==
    IF Len(d) > 1 /\ d[1] = 0 THEN StripZeros(Tail(d)) ELSE d

ToNumber(c) == IF c.t = "num" THEN c ELSE NumCell(StripZeros(c.d))

\* pd.read_excel(ORDER_FILE): a column whose every cell parses as a number is
\* read as numbers, an empty text cell as NaN
ReadExcel(rows) ==
    LET numeric == rows # <<>> /\ \A i \in 1..Len(rows) : IsNumeric(rows[i].OrderID)
    IN  [i \in 1..Len(rows) |->
            [rows[i] EXCEPT !.OrderID = IF numeric THEN ToNumber(@) ELSE @,
                            !.Product = ReadText(@),
                            !.Supplier = ReadText(@),
                            !.Weight = ReadText(@)]]

\* Rows that leave DiscountPct at save_order's default
OrderRowsDefaultDiscount(cartV, discount_pct, order_id, now) ==
    [i \in 1..Len(cartV) |->
        [OrderID |-> StrCell(order_id),
         Timestamp |-> now,
         Product |-> cartV[i].Product,
         Supplier |-> cartV[i].Supplier,
         Price |-> cartV[i].Price,
         Qty |-> cartV[i].Qty,
         Weight |-> cartV[i].Weight,
         LineTotal |-> cartV[i].LineTotal,
         DiscountPct |-> RInt(0)]]

\* save_order's rows: one per cart line, in cart order
OrderRows(cartV, discount_pct, order_id, now) ==
    [i \in 1..Len(cartV) |->
        [OrderID |-> StrCell(order_id),
         Timestamp |-> now,
         Product |-> cartV[i].Product,
         Supplier |-> cartV[i].Supplier,
         Price |-> cartV[i].Price,
         Qty |-> cartV[i].Qty,
         Weight |-> cartV[i].Weight,
         LineTotal |-> cartV[i].LineTotal,
         DiscountPct |-> discount_pct]]

\* save_order up to its write: df_new, and df_out from the ledger as read now
save_order_read(cartV, discount_pct, order_id, now, file) ==
    LET df_new == OrderRows(cartV, discount_pct, order_id, now)
    IN  [order_id |-> order_id,
         df_new |-> df_new,
         df_out |-> IF file.exists THEN ReadExcel(file.rows) \o df_new ELSE df_new]

\* A write that appends df_new to the file as it is at the write
AppendToFile(loc, file) ==
    [exists |-> TRUE,
     rows |-> IF file.exists THEN ReadExcel(file.rows) \o loc.df_new ELSE loc.df_new]

\* df_out.to_excel(ORDER_FILE): the file becomes df_out, whatever it held
ToExcel(loc, file) == [exists |-> TRUE, rows |-> loc.df_out]

\* save_order run without interruption
save_order(cartV, discount_pct, order_id, now, file) ==
    LET loc == save_order_read(cartV, discount_pct, order_id, now, file)
    IN  [order_id |-> order_id, df_new |-> loc.df_new, file |-> ToExcel(loc, file)]

NoFile == [exists |-> FALSE, rows |-> <<>>]

---------------------------------------------------------------------------
(* Inputs                                                                  *)

\* product_template.xlsx as found at start-up
ShopFile ==
      [exists |-> TRUE, rows |->
        << [ProductList |-> <<"Milk", US, "Product", US, "2", US, "Butter">>,
            Product |-> <<"Butter">>,
            Supplier |-> <<"Blink", SP, "IT">>, Price |-> PriceNum(290)],
           [ProductList |-> <<"Bread", US, "Product", US, "1", US, "Pizza", SP, "Base">>,
            Product |-> <<"Pizza", SP, "Base">>,
            Supplier |-> Blank, Price |-> PriceText] >>]

CreditFile ==
      [exists |-> TRUE, rows |->
        << [ProductList |-> <<"Sauces", US, "Product", US, "6", US, "Ketchup">>,
            Product |-> <<"Ketchup">>,
            Supplier |-> <<"Sauce", SP, "Co.">>, Price |-> PriceBlank],
           [ProductList |-> <<"Voucher">>,
            Product |-> <<"Voucher">>,
            Supplier |-> <<"Blink", SP, "IT">>, Price |-> PriceNum(-50)] >>]

\* The Add Product form's fields: ProductList, Product Name, Supplier, Price >= 0
NewProducts ==
    { [ProductList |-> <<"Bread", US, "product", US, "3", US, "Bun">>,
       Name |-> Blank, Supplier |-> <<"Baker's", SP, "Hub">>, Price |-> 40] }

Qtys == {1, 2}                                  \* the Qty input (min_value=1)
WeightInputs == {<<1000, "g">>, <<3, "kg">>}    \* 500 g (the default), 1.5 kg
DefaultWeight == {<<1000, "g">>}
Discounts == {RInt(0), <<25, 2>>}               \* 0 % (the default), 12.5 %
DefaultDiscount == RInt(0)

\* str(uuid.uuid4()).split("-")[0].upper(): eight hex digits
OrderIds == { <<0, 0, 1, 2, 3, 4, 5, 6>>,       \* "00123456"
              <<1, 10, 2, 11, 3, 12, 4, 13>> }  \* "1A2B3C4D"

\* now_local_str() as save_order reads it: the clock ticks once per finished save
TimeAt(n) == "2026-11-01 10:00:0" \o ToString(n) \o " IST"

CodeAtoms == {"Bread", "Packing", "Milk", "Product", "product", US, SP}
Codes == UNION {[1..n -> CodeAtoms] : n \in 0..MaxCodeLen}

NoLocal == [order_id |-> <<>>, df_new |-> <<>>, df_out |-> <<>>, readAt |-> 0]
NotDerived == [done |-> FALSE, Category |-> <<>>, show_weight |-> FALSE]

---------------------------------------------------------------------------
(* The script: every interaction reruns it from the top.  It first calls   *)
(* load_products() (memoized) and creates the session's cart if missing,   *)
(* then runs the selected page.                                            *)

RECURSIVE CartLines(_)
CartLines(S) ==
    IF S = {} THEN 0
    ELSE LET s == CHOOSE x \in S : TRUE IN Len(cart[s]) + CartLines(S \ {s})

\* Room left under the bound for one more cart line
Room == Len(ledger.rows) + CartLines(Sessions) < MaxLines

\* A sidebar that offers Save Order whatever the cart holds
SaveOfferedAlways(cartV) == TRUE

\* `if st.session_state.cart:` -- the cart sidebar, with the discount input and
\* the Save Order button, is rendered only while the cart is non-empty
SaveOffered(cartV) == cartV # <<>>

\* Order page, "Add to Cart" on the i-th product with the Qty and weight inputs
AddToCart(s, i, qty, w) ==
    /\ pc[s] = "idle"
    /\ Room
    /\ LET top == load_products(cache, productFile)
       IN  /\ i \in 1..Len(top.df)
           /\ LET prod == top.df[i]
                  show_weight == weight_applicable_for_row(prod.ProductList)
                  weight_str == IF show_weight THEN WeightDisplay(w[1], w[2]) ELSE Blank
              IN  cart' = [cart EXCEPT ![s] =
                              add_to_cart(@, prod.Product, prod.Supplier, prod.Price,
                                          qty, weight_str)]
           /\ cache' = top.cache
           /\ productFile' = top.file
    /\ UNCHANGED <<discount, ledger, torn, fpdf, saves, pc, local, code, derived>>

\* Order page, a new value typed into "Discount %": the sidebar shows the totals
ChangeDiscount(s, d) ==
    /\ pc[s] = "idle"
    /\ SaveOffered(cart[s])
    /\ d # discount[s]
    /\ LET top == load_products(cache, productFile)
           totals == compute_cart_totals(cart[s], d)
       IN  /\ cache' = top.cache
           /\ productFile' = top.file
    /\ discount' = [discount EXCEPT ![s] = d]
    /\ UNCHANGED <<cart, ledger, torn, fpdf, saves, pc, local, code, derived>>

\* What follows save_order in the Save Order handler: the receipt, then
\* clear_cart.  create_pdf_receipt runs only with fpdf installed and may raise
\* (pdf.output, or the text it is given); the script run then ends there.
AfterSave(s, pdfOK) ==
    IF fpdf /\ ~pdfOK
    THEN UNCHANGED <<cart, discount>>
    ELSE /\ cart' = [cart EXCEPT ![s] = clear_cart]
         /\ discount' = [discount EXCEPT ![s] = DefaultDiscount]

\* Order page, "Save Order", the whole handler
SaveOrderClick(s, order_id, pdfOK) ==
    /\ pc[s] = "idle"
    /\ SaveOffered(cart[s])
    /\ Len(ledger.rows) + Len(cart[s]) <= MaxLines
    /\ pdfOK \/ fpdf
    /\ ~torn
    /\ LET top == load_products(cache, productFile)
           totals == compute_cart_totals(cart[s], discount[s])
           so == save_order(cart[s], discount[s], order_id, TimeAt(Len(saves)), ledger)
       IN  /\ cache' = top.cache
           /\ productFile' = top.file
           /\ ledger' = so.file
           /\ torn' = FALSE
           /\ saves' = Append(saves, [sess |-> s, OrderID |-> so.order_id,
                                      rows |-> so.df_new, readAt |-> Len(saves)])
    /\ AfterSave(s, pdfOK)
    /\ UNCHANGED <<fpdf, pc, local, code, derived>>

\* "Save Order" up to save_order's read of the ledger (two sessions interleave
\* at the file operations); each session saves once
SaveRead(s, order_id) ==
    /\ pc[s] = "idle"
    /\ SaveOffered(cart[s])
    /\ \A k \in 1..Len(saves) : saves[k].sess # s
    /\ ~torn
    /\ LET top == load_products(cache, productFile)
           loc == save_order_read(cart[s], discount[s], order_id,
                                  TimeAt(Len(saves)), ledger)
       IN  /\ cache' = top.cache
           /\ productFile' = top.file
           /\ local' = [local EXCEPT ![s] =
                           [order_id |-> loc.order_id, df_new |-> loc.df_new,
                            df_out |-> loc.df_out, readAt |-> Len(saves)]]
    /\ pc' = [pc EXCEPT ![s] = "saving"]
    /\ UNCHANGED <<cart, discount, ledger, torn, fpdf, saves, code, derived>>

\* ... and from save_order's write to the end of the handler
SaveWrite(s, pdfOK) ==
    /\ pc[s] = "saving"
    /\ pdfOK \/ fpdf
    /\ ledger' = ToExcel(local[s], ledger)
    /\ torn' = FALSE
    /\ saves' = Append(saves, [sess |-> s, OrderID |-> local[s].order_id,
                               rows |-> local[s].df_new, readAt |-> local[s].readAt])
    /\ AfterSave(s, pdfOK)
    /\ pc' = [pc EXCEPT ![s] = "idle"]
    /\ local' = [local EXCEPT ![s] = NoLocal]
    /\ UNCHANGED <<productFile, cache, fpdf, code, derived>>

\* Where the ledger file can fail save_order: pd.read_excel raises; to_excel
\* cannot open the file for writing; the write fails with the file open
FailPoints == {"read", "open", "write"}

\* The file left by a write that failed with the file open: to_excel opened it
\* for writing, which emptied it, and what it then holds is no workbook
TornFile == [exists |-> TRUE, rows |-> <<>>]

\* Order page, "Save Order" when the ledger file fails save_order.  The
\* exception is caught nowhere: the script run ends in save_order, before the
\* receipt and clear_cart, and nothing is tried again.
SaveOrderFails(s, at) ==
    /\ pc[s] = "idle"
    /\ SaveOffered(cart[s])
    /\ at = "read" => ledger.exists
    /\ torn => at = "read"
    /\ LET top == load_products(cache, productFile)
           totals == compute_cart_totals(cart[s], discount[s])
       IN  /\ cache' = top.cache
           /\ productFile' = top.file
    /\ IF at = "write"
       THEN /\ ledger' = TornFile
            /\ torn' = TRUE
       ELSE UNCHANGED <<ledger, torn>>
    /\ UNCHANGED <<cart, discount, fpdf, saves, pc, local, code, derived>>

\* Add Product page, "Add Product" with ProductList filled in (left empty, the
\* handler only reports the error)
AddProductClick(s, p) ==
    /\ pc[s] = "idle"
    /\ p.ProductList # Blank
    /\ LET top == load_products(cache, productFile)
           new_row == [ProductList |-> p.ProductList,
                       Product |-> IF p.Name # Blank THEN p.Name ELSE p.ProductList,
                       Supplier |-> p.Supplier,
                       Price |-> PriceNum(p.Price)]
       IN  /\ Len(top.file.rows) < MaxCatalog
           /\ cache' = top.cache
           /\ productFile' = [exists |-> TRUE, rows |-> Append(top.file.rows, new_row)]
    /\ discount' = [discount EXCEPT ![s] = DefaultDiscount]
    /\ UNCHANGED <<cart, ledger, torn, fpdf, saves, pc, local, code, derived>>

\* Orders Report page: reads the ledger, writes nothing
OrdersReport(s) ==
    /\ pc[s] = "idle"
    /\ ~torn
    /\ LET top == load_products(cache, productFile)
           df_orders == IF ledger.exists THEN ReadExcel(ledger.rows) ELSE <<>>
       IN  /\ cache' = top.cache
           /\ productFile' = top.file
    /\ discount' = [discount EXCEPT ![s] = DefaultDiscount]
    /\ UNCHANGED <<cart, ledger, torn, fpdf, saves, pc, local, code, derived>>

\* The process restarts: the memo and every session's state are gone, the
\* files stay
Restart ==
    /\ cache.loaded
    /\ cache' = NoCache
    /\ cart' = [s \in Sessions |-> <<>>]
    /\ discount' = [s \in Sessions |-> DefaultDiscount]
    /\ pc' = [s \in Sessions |-> "idle"]
    /\ local' = [s \in Sessions |-> NoLocal]
    /\ UNCHANGED <<productFile, ledger, torn, fpdf, saves, code, derived>>

\* The category functions applied to a product code
Derive ==
    /\ ~derived.done
    /\ derived' = [done |-> TRUE,
                   Category |-> extract_category(code),
                   show_weight |-> weight_applicable_for_row(code)]
    /\ UNCHANGED <<productFile, cache, cart, discount, ledger, torn, fpdf, saves, pc,
                   local, code>>

---------------------------------------------------------------------------
(* Specifications                                                          *)

InitCommon ==
    /\ cache = NoCache
    /\ cart = [s \in Sessions |-> <<>>]
    /\ discount = [s \in Sessions |-> DefaultDiscount]
    /\ ledger = NoFile
    /\ torn = FALSE
    /\ saves = <<>>
    /\ pc = [s \in Sessions |-> "idle"]
    /\ local = [s \in Sessions |-> NoLocal]
    /\ derived = NotDerived

Shown == Len(load_products(cache, productFile).df)

\* One session at the Order, Add Product and Orders Report pages, fpdf
\* installed (a receipt that is written leaves the state the CSV path leaves)
Init ==
    /\ InitCommon
    /\ productFile = ShopFile
    /\ fpdf = TRUE
    /\ code = <<>>

Next ==
    \/ \E i \in 1..Shown, qty \in Qtys, w \in DefaultWeight : AddToCart(1, i, qty, w)
    \/ \E d \in Discounts : ChangeDiscount(1, d)
    \/ \E order_id \in OrderIds, pdfOK \in BOOLEAN : SaveOrderClick(1, order_id, pdfOK)
    \/ OrdersReport(1)

Spec == Init /\ [][Next]_vars

\* One session and the process around it: any catalog file, or none; products
\* added; restarts
InitCatalog ==
    /\ InitCommon
    /\ productFile \in {NoFile, ShopFile, CreditFile}
    /\ fpdf = FALSE
    /\ code = <<>>

NextCatalog ==
    \/ \E i \in 1..Shown, qty \in {1}, w \in DefaultWeight : AddToCart(1, i, qty, w)
    \/ \E order_id \in OrderIds : SaveOrderClick(1, order_id, TRUE)
    \/ \E p \in NewProducts : AddProductClick(1, p)
    \/ Restart

SpecCatalog == InitCatalog /\ [][NextCatalog]_vars

\* Two sessions of one process, each saving one order
InitRace ==
    /\ InitCommon
    /\ productFile = ShopFile
    /\ fpdf \in BOOLEAN
    /\ code = <<>>

NextRace ==
    \E s \in Sessions :
        \/ \E i \in 1..Shown, qty \in {1}, w \in DefaultWeight : AddToCart(s, i, qty, w)
        \/ \E order_id \in OrderIds : SaveRead(s, order_id)
        \/ \E pdfOK \in BOOLEAN : SaveWrite(s, pdfOK)

SpecRace == InitRace /\ [][NextRace]_vars

\* One session whose saves can fail at the ledger file
InitFail ==
    /\ InitCommon
    /\ productFile = ShopFile
    /\ fpdf = FALSE
    /\ code = <<>>

NextFail ==
    \/ \E i \in 1..Shown, qty \in Qtys, w \in DefaultWeight : AddToCart(1, i, qty, w)
    \/ \E d \in Discounts : ChangeDiscount(1, d)
    \/ \E order_id \in OrderIds : SaveOrderClick(1, order_id, TRUE)
    \/ \E at \in FailPoints : SaveOrderFails(1, at)
    \/ OrdersReport(1)

SpecFail == InitFail /\ [][NextFail]_vars

\* The category functions on every product code of up to MaxCodeLen atoms
InitCategory ==
    /\ InitCommon
    /\ productFile = NoFile
    /\ fpdf = FALSE
    /\ code \in Codes

NextCategory == Derive

SpecCategory == InitCategory /\ [][NextCategory]_vars

---------------------------------------------------------------------------
(* Properties                                                              *)

IsPrefix(a, b) == Len(a) <= Len(b) /\ SubSeq(b, 1, Len(a)) = a

\* The ledger as pd.read_excel returns it
LedgerRead(file) == IF file.exists THEN ReadExcel(file.rows) ELSE <<>>

\* C1: one save_order call on a non-empty cart makes the ledger exactly
\* len(cart) rows longer; the new rows are one per cart line in cart order, copy
\* the line's Product, Supplier, Price, Qty, Weight and LineTotal, and all carry
\* one OrderID, one Timestamp and the discount_pct given.
C1_SaveAppendsCart ==
    [][ledger' # ledger =>
         \E s \in Sessions :
             LET c == cart[s]
                 k == Len(ledger.rows)
                 out == ledger'.rows
             IN  /\ c # <<>>
                 /\ Len(out) = k + Len(c)
                 /\ \A i \in 1..Len(c) :
                        /\ out[k + i].Product = c[i].Product
                        /\ out[k + i].Supplier = c[i].Supplier
                        /\ out[k + i].Price = c[i].Price
                        /\ out[k + i].Qty = c[i].Qty
                        /\ out[k + i].Weight = c[i].Weight
                        /\ out[k + i].LineTotal = c[i].LineTotal
                        /\ out[k + i].OrderID = out[k + 1].OrderID
                        /\ out[k + i].OrderID.t = "str"
                        /\ out[k + i].Timestamp = out[k + 1].Timestamp
                        /\ out[k + i].DiscountPct = discount[s]]_vars

\* C1's case: a second order of two different lines, saved at 12.5 % onto a
\* ledger that held one row
C1_Witness ==
    /\ Len(saves) = 2
    /\ Len(ledger.rows) = 3
    /\ Len(saves[2].rows) = 2
    /\ saves[2].rows[1].Product # saves[2].rows[2].Product
    /\ ledger.rows[3].DiscountPct = <<25, 2>>

\* C2: after any Save Order action that wrote the order's rows to the ledger
\* the cart is empty when the interaction ends.
C2_SaveClearsCart ==
    [][ledger' # ledger => \A s \in Sessions : cart'[s] = <<>>]_vars

RECURSIVE SavedIds(_)
SavedIds(h) ==
    IF h = <<>> THEN <<>>
    ELSE SavedIds(SubSeq(h, 1, Len(h) - 1))
         \o [i \in 1..Len(h[Len(h)].rows) |-> StrCell(h[Len(h)].OrderID)]

\* C3: the ledger before each action is a prefix of the ledger after it, and
\* reading the ledger yields the saved orders' rows in save order with their
\* original OrderIDs.
C3_AppendOnly ==
    [][/\ IsPrefix(LedgerRead(ledger), LedgerRead(ledger'))
       /\ [i \in 1..Len(ledger'.rows) |-> LedgerRead(ledger')[i].OrderID]
              = SavedIds(saves')]_vars

\* C4: when both sessions' saves have returned, the ledger holds both orders if
\* the later writer read after the earlier write, and the later writer's rows
\* alone -- the earlier order lost -- if both read before either wrote.
C4_LaterWriteDropsEarlier ==
    Len(saves) = 2 =>
        /\ saves[1].rows # <<>>
        /\ saves[2].readAt = 0 => ledger.rows = saves[2].rows
        /\ saves[2].readAt = 1 =>
               ledger.rows = ReadExcel(saves[1].rows) \o saves[2].rows

\* C4's case: two sessions saved, the second writer having read before the
\* first wrote, and the ledger holds no row of the first
C4_Witness ==
    /\ Len(saves) = 2
    /\ saves[1].sess # saves[2].sess
    /\ saves[2].readAt = 0
    /\ saves[1].OrderID # saves[2].OrderID
    /\ \A i \in 1..Len(ledger.rows) : ledger.rows[i].OrderID.d # saves[1].OrderID

\* C5: any two distinct save_order calls produce different OrderIDs.
C5_OrderIdNeverReused ==
    \A i, j \in 1..Len(saves) : i # j => saves[i].OrderID # saves[j].OrderID

\* C6: the ledger changes only in a step taken with a non-empty cart, and
\* save_order on an empty cart would leave the ledger's rows as they are.
C6_EmptyCartSavesNothing ==
    [][/\ ledger' # ledger => \E s \in Sessions : cart[s] # <<>>
       /\ \A d \in Discounts, order_id \in OrderIds :
              LedgerRead(save_order(<<>>, d, order_id, TimeAt(Len(saves)), ledger).file)
                  = LedgerRead(ledger)]_vars

\* C6's case: the cart is empty, Save Order is not offered, the ledger holds rows
C6_Witness ==
    /\ cart[1] = <<>>
    /\ ~SaveOffered(cart[1])
    /\ Len(ledger.rows) >= 2

RECURSIVE SumOver(_, _)
SumOver(cartV, S) ==
    IF S = {} THEN 0
    ELSE LET i == CHOOSE x \in S : TRUE
         IN  cartV[i].LineTotal + SumOver(cartV, S \ {i})

TotalsAsSpecified(cartV, d) ==
    LET t == compute_cart_totals(cartV, d)
        sub == SumOver(cartV, DOMAIN cartV)
        disc == <<sub * d[1], d[2] * 100>>
    IN  /\ t.subtotal = sub
        /\ cartV = <<>> => t.subtotal = 0
        /\ REq(t.discount_val, disc)
        /\ REq(t.total, RSub(RInt(sub), disc))
        /\ d = RInt(0) => REq(t.total, RInt(sub))

C8_CartLinesValid ==
    \A s \in Sessions : \A i \in 1..Len(cart[s]) :
        /\ cart[s][i].Qty >= 1
        /\ cart[s][i].Price >= 0
        /\ cart[s][i].LineTotal = cart[s][i].Price * cart[s][i].Qty

\* C9: weight is not applicable to a product code if and only if the loader's
\* Category for it is Bread_Product or Packing_Product.
C9_NoWeightIffReserved ==
    derived.done =>
        (~derived.show_weight <=> derived.Category \in {BreadProduct, PackingProduct})

\* C10: Add Product appends exactly one row to the catalog file and leaves the
\* memoized catalog, the cart and the ledger unchanged; once filled, the memo
\* stays what the first load_products call returned until the process restarts.
C10_AddProductInvisible ==
    [][/\ (productFile.exists /\ productFile' # productFile) =>
              /\ productFile'.rows = Append(productFile.rows,
                                            productFile'.rows[Len(productFile'.rows)])
              /\ cart' = cart
              /\ ledger' = ledger
              /\ cache.loaded => cache' = cache
       /\ (cache.loaded /\ cache'.loaded) => cache' = cache
       /\ cache'.loaded => Shown' = Len(cache'.df)]_vars

\* C10's case: a product was added after the catalog was loaded, and the Order
\* page (a line is in the cart) still shows the catalog without it
C10_Witness ==
    /\ cache.loaded
    /\ Len(productFile.rows) = Len(cache.df) + 1
    /\ Shown = Len(cache.df)
    /\ cart[1] # <<>>
    /\ ledger.rows # <<>>

\* C11: a Save Order action in which reading or writing the ledger fails
\* leaves the state as it was before the action: the ledger is what it held,
\* with no row of the failed order, and the cart still holds all its lines.
C11_FailedSaveLeavesState ==
    [][(\E at \in FailPoints : SaveOrderFails(1, at))
          => /\ cart' = cart
             /\ ledger' = ledger
             /\ torn' = torn]_vars

====
